---- MODULE Spec2Model ----
(***************************************************************************)
(* A model of openmmtools/forces.py: the two nonbonded-force locators      *)
(* (find_nonbonded_force, iterate_nonbonded_forces) and the two reaction-  *)
(* field force classes (UnshiftedReactionFieldForce,                       *)
(* SwitchedReactionFieldForce) with their value constructor and their two  *)
(* copy constructors.                                                      *)
(*                                                                         *)
(* Lengths and dielectrics are exact rationals [n, d] (lengths in nm, the  *)
(* unit of the md unit system); the "{:f}" formatting that embeds k_rf and *)
(* c_rf in the energy expression is modelled as rounding to six decimals.  *)
(* An OpenMM object is a record of the fields its setters write; a field   *)
(* no setter has written is Unset.                                         *)
(***************************************************************************)
EXTENDS Integers, Sequences, FiniteSets, TLC

VARIABLES system, gen, result

vars == <<system, gen, result>>

-----------------------------------------------------------------------------
(* Bounds of the model.                                                    *)

MaxForces == 3
MaxParticles == 2
MaxExceptions == 1

-----------------------------------------------------------------------------
(* Exact rational arithmetic.                                              *)

RECURSIVE Gcd(_, _)
Gcd(a, b) == IF b = 0 THEN a ELSE Gcd(b, a % b)

Abs(x) == IF x < 0 THEN -x ELSE x

\* The rational n/d in lowest terms with a positive denominator (d # 0).
Rat(n, d) ==
    LET g == Gcd(Abs(n), Abs(d))
        s == IF d < 0 THEN -1 ELSE 1
    IN  [n |-> s * (n \div g), d |-> s * (d \div g)]

RatInt(k) == [n |-> k, d |-> 1]
RatAdd(a, b) == Rat(a.n * b.d + b.n * a.d, a.d * b.d)
RatSub(a, b) == Rat(a.n * b.d - b.n * a.d, a.d * b.d)
RatMul(a, b) == Rat(a.n * b.n, a.d * b.d)
RatDiv(a, b) == Rat(a.n * b.d, a.d * b.n)
RatInv(a) == Rat(a.d, a.n)
RatPos(a) == a.n > 0
RatLe(a, b) == a.n * b.d <= b.n * a.d
RatLt(a, b) == a.n * b.d < b.n * a.d

\* "{:f}".format(x): x rounded to six decimals (ties to even), as the sign and
\* the number of millionths.  The digits are produced by long division.
RECURSIVE LongDiv(_, _, _, _)
LongDiv(r, den, k, acc) ==
    IF k = 0 THEN [val |-> acc, rem |-> r]
    ELSE LongDiv((r * 10) % den, den, k - 1, acc * 10 + ((r * 10) \div den))

FormatF(x) ==
    LET a == Abs(x.n)
        ip == a \div x.d
        fr == LongDiv(a % x.d, x.d, 6, 0)
        t == ip * 1000000 + fr.val
        up == \/ 2 * fr.rem > x.d
              \/ 2 * fr.rem = x.d /\ t % 2 = 1
    IN  [neg |-> x.n < 0, micro |-> IF up THEN t + 1 ELSE t]

-----------------------------------------------------------------------------
(* Objects.                                                                *)

\* Python's None, and a field of an OpenMM object that no setter has written.
None == [cls |-> "NoneType"]
Unset == [cls |-> "Unset"]

\* A Python bool held in a field of an OpenMM object.
Bool(v) == [cls |-> "bool", v |-> v]

\* What a call gives back: a returned value or a raised exception.
Return(v) == [kind |-> "return", value |-> v, exc |-> "", msg |-> ""]
Raise(e, m) == [kind |-> "raise", value |-> None, exc |-> e, msg |-> m]

\* An openmm.NonbondedForce as the module reads it.
NonbondedForce(cutoff, dielectric, particles, exceptions) ==
    [cls |-> "NonbondedForce", handle |-> 0,
     cutoffDistance |-> cutoff, reactionFieldDielectric |-> dielectric,
     particles |-> particles, exceptions |-> exceptions]

Particle(charge, sigma, epsilon) ==
    [charge |-> charge, sigma |-> sigma, epsilon |-> epsilon]

Exception(iatom, jatom, chargeprod, sigma, epsilon) ==
    [iatom |-> iatom, jatom |-> jatom, chargeprod |-> chargeprod,
     sigma |-> sigma, epsilon |-> epsilon]

\* A force of another class registered in the system.
OtherForce(cls) == [cls |-> cls, handle |-> 0]

\* isinstance(force, openmm.NonbondedForce)
isinstance_NonbondedForce(force) == force.cls = "NonbondedForce"

-----------------------------------------------------------------------------
(* Utility functions.                                                      *)

RECURSIVE find_loop(_, _, _)
find_loop(forces, i, nonbonded_force) ==
    IF i > Len(forces) THEN Return(nonbonded_force)
    ELSE IF isinstance_NonbondedForce(forces[i])
         THEN IF nonbonded_force # None
              THEN Raise("ValueError", "The System has multiple NonbondedForces")
              ELSE find_loop(forces, i + 1, forces[i])
         ELSE find_loop(forces, i + 1, nonbonded_force)

\* Mutant: the isinstance test is missing, every force is yielded.
iterate_every_force(forces, idx) == IF idx > Len(forces) THEN 0 ELSE idx

\* The generator of iterate_nonbonded_forces suspended before forces[idx]: the
\* index of the next force it yields, or 0 when the loop runs off the list.
RECURSIVE iterate_advance(_, _)
iterate_advance(forces, idx) ==
    IF idx > Len(forces) THEN 0
    ELSE IF isinstance_NonbondedForce(forces[idx]) THEN idx
         ELSE iterate_advance(forces, idx + 1)

\* Mutant: the first nonbonded force, with no check for a second one.
find_first_nonbonded_force(sys) ==
    LET j == iterate_advance(sys, 1)
    IN  IF j = 0 THEN Return(None) ELSE Return(sys[j])

\* Mutant: "nonbonded_force = force" outside the isinstance test, so the last
\* force of any class is returned when at most one nonbonded force exists.
find_last_force(sys) ==
    IF find_loop(sys, 1, None).kind = "raise" THEN find_loop(sys, 1, None)
    ELSE IF Len(sys) = 0 THEN Return(None) ELSE Return(sys[Len(sys)])

find_nonbonded_force(sys) == find_loop(sys, 1, None)

-----------------------------------------------------------------------------
(* Reaction field.                                                         *)

\* openmm.CustomNonbondedForce(energy_expression) before any setter is called.
CustomNonbondedForce(cls, energy_expression) ==
    [cls |-> cls, handle |-> 0,
     energy |-> energy_expression,
     perParticleParameters |-> <<>>,
     nonbondedMethod |-> Unset,
     cutoffDistance |-> Unset,
     useLongRangeCorrection |-> Unset,
     useSwitchingFunction |-> Unset,
     switchingDistance |-> Unset,
     particles |-> <<>>,
     exclusions |-> <<>>]

addPerParticleParameter(f, name) ==
    [f EXCEPT !.perParticleParameters = Append(@, name)]
setNonbondedMethod(f, method) == [f EXCEPT !.nonbondedMethod = [cls |-> method]]
setCutoffDistance(f, distance) == [f EXCEPT !.cutoffDistance = distance]
setUseLongRangeCorrection(f, use) == [f EXCEPT !.useLongRangeCorrection = Bool(use)]
setUseSwitchingFunction(f, use) == [f EXCEPT !.useSwitchingFunction = Bool(use)]
setSwitchingDistance(f, distance) == [f EXCEPT !.switchingDistance = distance]
addParticle(f, parameters) == [f EXCEPT !.particles = Append(@, parameters)]
addExclusion(f, iatom, jatom) == [f EXCEPT !.exclusions = Append(@, <<iatom, jatom>>)]

\* Mutant: the numerator's difference the wrong way round, 1.0 - d.
k_rf_sign_slip(cutoff_distance, reaction_field_dielectric) ==
    RatDiv(RatMul(RatInv(RatMul(cutoff_distance, RatMul(cutoff_distance, cutoff_distance))),
                  RatSub(RatInt(1), reaction_field_dielectric)),
           RatAdd(RatMul(RatInt(2), reaction_field_dielectric), RatInt(1)))

\* k_rf = cutoff_distance**(-3) * (d - 1.0) / (2.0*d + 1.0)
k_rf(cutoff_distance, reaction_field_dielectric) ==
    RatDiv(RatMul(RatInv(RatMul(cutoff_distance, RatMul(cutoff_distance, cutoff_distance))),
                  RatSub(reaction_field_dielectric, RatInt(1))),
           RatAdd(RatMul(RatInt(2), reaction_field_dielectric), RatInt(1)))

\* c_rf = cutoff_distance**(-1) * (3*d) / (2.0*d + 1.0)
c_rf(cutoff_distance, reaction_field_dielectric) ==
    RatDiv(RatMul(RatInv(cutoff_distance),
                  RatMul(RatInt(3), reaction_field_dielectric)),
           RatAdd(RatMul(RatInt(2), reaction_field_dielectric), RatInt(1)))

\* The energy expression: its functional form and the literals embedded in it.
UnshiftedEnergyExpression(cutoff_distance, reaction_field_dielectric) ==
    [form |-> "ONE_4PI_EPS0*chargeprod*(r^(-1) + k_rf*r^2);",
     chargeprod |-> "charge1*charge2",
     k_rf |-> FormatF(k_rf(cutoff_distance, reaction_field_dielectric)),
     c_rf |-> Unset]

SwitchedEnergyExpression(cutoff_distance, reaction_field_dielectric) ==
    [form |-> "ONE_4PI_EPS0*chargeprod*(r^(-1) + k_rf*r^2 - c_rf);",
     chargeprod |-> "charge1*charge2",
     k_rf |-> FormatF(k_rf(cutoff_distance, reaction_field_dielectric)),
     c_rf |-> FormatF(c_rf(cutoff_distance, reaction_field_dielectric))]

\* Mutant: the switch width itself is given as the switching distance.
ConfigureForce_width_as_distance(f, cutoff_distance, switch_width) ==
    LET f1 == setNonbondedMethod(f, "CutoffPeriodic")
        f2 == setCutoffDistance(f1, cutoff_distance)
        f3 == setUseLongRangeCorrection(f2, FALSE)
    IN  IF switch_width # None
        THEN setSwitchingDistance(setUseSwitchingFunction(f3, TRUE), switch_width)
        ELSE setUseSwitchingFunction(f3, FALSE)

\* "Configure force.": the same five statements close both constructors.
ConfigureForce(f, cutoff_distance, switch_width) ==
    LET f1 == setNonbondedMethod(f, "CutoffPeriodic")
        f2 == setCutoffDistance(f1, cutoff_distance)
        f3 == setUseLongRangeCorrection(f2, FALSE)
    IN  IF switch_width # None
        THEN setSwitchingDistance(setUseSwitchingFunction(f3, TRUE),
                                  RatSub(cutoff_distance, switch_width))
        ELSE setUseSwitchingFunction(f3, FALSE)

UnshiftedReactionFieldForce(cutoff_distance, switch_width, reaction_field_dielectric) ==
    LET f0 == CustomNonbondedForce("UnshiftedReactionFieldForce",
                  UnshiftedEnergyExpression(cutoff_distance, reaction_field_dielectric))
        f1 == addPerParticleParameter(f0, "charge")
    IN  ConfigureForce(f1, cutoff_distance, switch_width)

SwitchedReactionFieldForce(cutoff_distance, switch_width, reaction_field_dielectric) ==
    LET f0 == CustomNonbondedForce("SwitchedReactionFieldForce",
                  SwitchedEnergyExpression(cutoff_distance, reaction_field_dielectric))
        f1 == addPerParticleParameter(f0, "charge")
    IN  ConfigureForce(f1, cutoff_distance, switch_width)

\* cls(cutoff_distance, switch_width, reaction_field_dielectric)
New(cls, cutoff_distance, switch_width, reaction_field_dielectric) ==
    IF cls = "UnshiftedReactionFieldForce"
    THEN UnshiftedReactionFieldForce(cutoff_distance, switch_width, reaction_field_dielectric)
    ELSE SwitchedReactionFieldForce(cutoff_distance, switch_width, reaction_field_dielectric)

\* Mutant: sigma is added as the per-particle parameter instead of charge.
copy_particles_sigma(reaction_field_force, nonbonded_force, particle_index) ==
    [reaction_field_force EXCEPT !.particles =
        @ \o [i \in 1..Len(nonbonded_force.particles) |->
                 <<nonbonded_force.particles[i].sigma>>]]

\* "Set particle charges."
RECURSIVE copy_particles(_, _, _)
copy_particles(reaction_field_force, nonbonded_force, particle_index) ==
    IF particle_index >= Len(nonbonded_force.particles) THEN reaction_field_force
    ELSE LET p == nonbonded_force.particles[particle_index + 1]
         IN  copy_particles(addParticle(reaction_field_force, <<p.charge>>),
                            nonbonded_force, particle_index + 1)

\* Mutant: only the exceptions that switch the interaction off entirely
\* (zero charge product and epsilon) are turned into exclusions.
copy_exclusions_zeroed_only(reaction_field_force, nonbonded_force, exception_index) ==
    LET zeroed == SelectSeq(nonbonded_force.exceptions,
                            LAMBDA e : e.chargeprod = 0 /\ e.epsilon = 0)
    IN  [reaction_field_force EXCEPT !.exclusions =
            @ \o [k \in 1..Len(zeroed) |-> <<zeroed[k].iatom, zeroed[k].jatom>>]]

\* "Add exclusions to CustomNonbondedForce."
RECURSIVE copy_exclusions(_, _, _)
copy_exclusions(reaction_field_force, nonbonded_force, exception_index) ==
    IF exception_index >= Len(nonbonded_force.exceptions) THEN reaction_field_force
    ELSE LET e == nonbonded_force.exceptions[exception_index + 1]
         IN  copy_exclusions(addExclusion(reaction_field_force, e.iatom, e.jatom),
                             nonbonded_force, exception_index + 1)

\* Mutant: the source's dielectric is not passed on, the constructor's default
\* 78.3 is used.
from_nonbonded_force_default_dielectric(cls, nonbonded_force, switch_width) ==
    IF nonbonded_force = None
    THEN Raise("AttributeError", "'NoneType' object has no attribute 'getCutoffDistance'")
    ELSE LET reaction_field_force == New(cls, nonbonded_force.cutoffDistance, switch_width,
                                         Rat(783, 10))
             with_particles == copy_particles(reaction_field_force, nonbonded_force, 0)
         IN  Return(copy_exclusions(with_particles, nonbonded_force, 0))

\* cls.from_nonbonded_force(nonbonded_force, switch_width); None has no
\* getCutoffDistance, so the first statement raises AttributeError.
from_nonbonded_force(cls, nonbonded_force, switch_width) ==
    IF nonbonded_force = None
    THEN Raise("AttributeError", "'NoneType' object has no attribute 'getCutoffDistance'")
    ELSE LET cutoff_distance == nonbonded_force.cutoffDistance
             reaction_field_dielectric == nonbonded_force.reactionFieldDielectric
             reaction_field_force == New(cls, cutoff_distance, switch_width,
                                         reaction_field_dielectric)
             with_particles == copy_particles(reaction_field_force, nonbonded_force, 0)
         IN  Return(copy_exclusions(with_particles, nonbonded_force, 0))

\* Mutant: the copied charges are zeroed in the source, as a replacement of
\* the electrostatics would do.
source_charges_zeroed(nonbonded_force) ==
    [nonbonded_force EXCEPT !.particles =
        [i \in 1..Len(@) |-> [@[i] EXCEPT !.charge = 0]]]

\* The source force after from_nonbonded_force has read it: no setter of
\* nonbonded_force is called.
source_after_copy(nonbonded_force) == nonbonded_force

\* Mutant: the switch width is not passed on, the default 1 angstrom is used.
from_system_default_width(cls, sys, switch_width) ==
    LET found == find_nonbonded_force(sys)
    IN  IF found.kind = "raise" THEN found
        ELSE from_nonbonded_force(cls, found.value, Rat(1, 10))

\* cls.from_system(system, switch_width): an exception of find_nonbonded_force
\* propagates.
from_system(cls, sys, switch_width) ==
    LET found == find_nonbonded_force(sys)
    IN  IF found.kind = "raise" THEN found
        ELSE from_nonbonded_force(cls, found.value, switch_width)

-----------------------------------------------------------------------------
(* Inputs.                                                                 *)

\* Sequences over S of length at most k.
SeqUpTo(S, k) == UNION {[1..n -> S] : n \in 0..k}

\* Lengths in nm: 12 and 15 angstroms (15 is the constructors' default).
Cutoffs == {Rat(6, 5), Rat(3, 2)}
\* Switch widths: disabled, zero, and the default 1 angstrom.
SwitchWidths == {None, Rat(0, 1), Rat(1, 10)}
\* Dielectric constants, all positive; 78.3 is the constructors' default.
Dielectrics == {Rat(1, 2), Rat(1, 1), Rat(80, 1), Rat(783, 10)}
Classes == {"UnshiftedReactionFieldForce", "SwitchedReactionFieldForce"}

\* Particle parameters: charge (in tenths of e), sigma, epsilon.  Two kinds
\* differ in charge alone, the third in all three.
ParticleKinds == {Particle(10, 3, 1), Particle(-10, 3, 1), Particle(-5, 2, 2)}

\* The exceptions a NonbondedForce with n particles can hold: pairs of
\* distinct particle indices in either order, no pair twice (addException
\* rejects it), each with one of two parameter sets.
ExceptionKinds(n) ==
    {Exception(i, j, 0, 2, 0) : i \in 0..(n - 1), j \in 0..(n - 1)}
        \cup {Exception(i, j, -50, 3, 1) : i \in 0..(n - 1), j \in 0..(n - 1)}

NoPairTwice(es) ==
    /\ \A a \in 1..Len(es) : es[a].iatom # es[a].jatom
    /\ \A a, b \in 1..Len(es) :
           a # b => {es[a].iatom, es[a].jatom} # {es[b].iatom, es[b].jatom}

ExceptionLists(n) == {es \in SeqUpTo(ExceptionKinds(n), MaxExceptions) : NoPairTwice(es)}

\* The source forces of the copy constructors.
NBSources ==
    UNION {{NonbondedForce(c, d, ps, es) :
                c \in Cutoffs, d \in {Rat(80, 1), Rat(783, 10)},
                es \in ExceptionLists(Len(ps))} :
           ps \in SeqUpTo(ParticleKinds, MaxParticles)}

\* The forces registered in the systems the locators search: two nonbonded
\* forces and one force each of two other classes.
SystemForces ==
    {OtherForce("HarmonicBondForce"), OtherForce("CustomNonbondedForce"),
     NonbondedForce(Rat(3, 2), Rat(783, 10),
                    <<Particle(10, 3, 1), Particle(-10, 3, 1), Particle(5, 2, 2)>>,
                    <<Exception(0, 1, -50, 3, 1)>>),
     NonbondedForce(Rat(6, 5), Rat(80, 1), <<Particle(-5, 2, 2)>>, <<>>)}

\* System.addForce gives each force its index in the list.
Registered(forces) == [i \in 1..Len(forces) |-> [forces[i] EXCEPT !.handle = i]]

-----------------------------------------------------------------------------
(* The state: the system's force list, the generator made by the last call *)
(* of iterate_nonbonded_forces, and the last call with its outcome.        *)

NoGenerator == [state |-> "none", idx |-> 0, yielded |-> <<>>]
NoCall == [op |-> "none"]

InitLocate ==
    /\ \E forces \in SeqUpTo(SystemForces, MaxForces) : system = Registered(forces)
    /\ gen = NoGenerator
    /\ result = NoCall

InitBuild ==
    /\ \E nonbonded_force \in NBSources : system = Registered(<<nonbonded_force>>)
    /\ gen = NoGenerator
    /\ result = NoCall

Call_find_nonbonded_force ==
    /\ result' = [op |-> "find_nonbonded_force", outcome |-> find_nonbonded_force(system)]
    /\ UNCHANGED <<system, gen>>

\* Calling a generator function runs none of its body.
Call_iterate_nonbonded_forces ==
    /\ gen' = [state |-> "suspended", idx |-> 1, yielded |-> <<>>]
    /\ result' = [op |-> "iterate_nonbonded_forces", outcome |-> Return([cls |-> "generator"])]
    /\ UNCHANGED system

\* next(generator): run the loop to the next yield, or off its end.
Next_generator ==
    /\ gen.state = "suspended"
    /\ LET j == iterate_advance(system, gen.idx)
       IN  \/ /\ j # 0
              /\ gen' = [gen EXCEPT !.idx = j + 1, !.yielded = Append(@, system[j])]
              /\ result' = [op |-> "next", outcome |-> Return(system[j])]
           \/ /\ j = 0
              /\ gen' = [gen EXCEPT !.state = "exhausted", !.idx = Len(system) + 1]
              /\ result' = [op |-> "next", outcome |-> Raise("StopIteration", "")]
    /\ UNCHANGED system

Call_from_system ==
    \E cls \in Classes, switch_width \in SwitchWidths :
        LET found == find_nonbonded_force(system)
        IN  /\ result' = [op |-> "from_system", cls |-> cls, switch_width |-> switch_width,
                          outcome |-> from_system(cls, system, switch_width)]
            /\ system' = [i \in 1..Len(system) |->
                             IF found.kind = "return" /\ found.value.cls # "NoneType"
                                /\ found.value.handle = i
                             THEN source_after_copy(system[i]) ELSE system[i]]
            /\ UNCHANGED gen

Call_init ==
    \E cls \in Classes, cutoff_distance \in Cutoffs, switch_width \in SwitchWidths,
       reaction_field_dielectric \in Dielectrics :
        /\ result' = [op |-> "__init__", cls |-> cls, cutoff_distance |-> cutoff_distance,
                      switch_width |-> switch_width,
                      reaction_field_dielectric |-> reaction_field_dielectric,
                      k_rf |-> k_rf(cutoff_distance, reaction_field_dielectric),
                      outcome |-> Return(New(cls, cutoff_distance, switch_width,
                                             reaction_field_dielectric))]
        /\ UNCHANGED <<system, gen>>

Call_from_nonbonded_force ==
    \E cls \in Classes, i \in 1..Len(system), switch_width \in SwitchWidths :
        /\ isinstance_NonbondedForce(system[i])
        /\ result' = [op |-> "from_nonbonded_force", cls |-> cls, source |-> i,
                      switch_width |-> switch_width,
                      outcome |-> from_nonbonded_force(cls, system[i], switch_width)]
        /\ system' = [system EXCEPT ![i] = source_after_copy(@)]
        /\ UNCHANGED gen

\* The locators and the copy constructors, called in any order on one system.
NextLocate ==
    \/ Call_find_nonbonded_force
    \/ Call_iterate_nonbonded_forces
    \/ Next_generator
    \/ Call_from_system
    \/ Call_from_nonbonded_force

\* One construction: the value constructor on drawn arguments, or the copy
\* constructor on the drawn source force.
Construct == result = NoCall /\ Call_init

Copy == result = NoCall /\ Call_from_nonbonded_force

NextBuild ==
    \/ Construct
    \/ Copy

Spec == InitLocate /\ [][NextLocate]_vars

SpecBuild == InitBuild /\ [][NextBuild]_vars

-----------------------------------------------------------------------------
(* Properties of the locators, under Spec.                                 *)

\* The positions of the nonbonded forces in a force list.
NonbondedAt(sys) == {i \in 1..Len(sys) : sys[i].cls = "NonbondedForce"}

\* The nonbonded forces of a force list, in its order.
NonbondedOf(sys) == SelectSeq(sys, LAMBDA f : f.cls = "NonbondedForce")

\* C1 as stated: with two or more nonbonded forces in the force list,
\* find_nonbonded_force fails with a MultipleForcesError and returns no force.
C1_MultipleForcesError ==
    (result.op = "find_nonbonded_force" /\ Cardinality(NonbondedAt(system)) >= 2)
        => /\ result.outcome.kind = "raise"
           /\ result.outcome.exc = "MultipleForcesError"
           /\ result.outcome.value = None

\* C1 amended: with two or more nonbonded forces in the force list, at any
\* positions, find_nonbonded_force fails with a ValueError ("The System has
\* multiple NonbondedForces") and returns no force.
C1_ValueError ==
    (result.op = "find_nonbonded_force" /\ Cardinality(NonbondedAt(system)) >= 2)
        => /\ result.outcome.kind = "raise"
           /\ result.outcome.exc = "ValueError"
           /\ result.outcome.msg = "The System has multiple NonbondedForces"
           /\ result.outcome.value = None

\* find_nonbonded_force has failed on two nonbonded forces that have a force
\* of another class between them.
C1_Witness ==
    /\ result.op = "find_nonbonded_force"
    /\ result.outcome.kind = "raise"
    /\ \E i, j \in NonbondedAt(system) : \E k \in 1..Len(system) :
           i < k /\ k < j /\ k \notin NonbondedAt(system)

\* C2: with exactly one nonbonded force in the force list, find_nonbonded_force
\* returns that very force, whatever its position; with none it returns None
\* and raises nothing.
C2_FindReturns ==
    result.op = "find_nonbonded_force"
        => /\ Cardinality(NonbondedAt(system)) = 1
                => \E i \in NonbondedAt(system) : result.outcome = Return(system[i])
           /\ Cardinality(NonbondedAt(system)) = 0
                => result.outcome = Return(None)

\* find_nonbonded_force has returned the sole nonbonded force of a system in
\* which a force of another class comes before it and another after it.
C2_Witness ==
    /\ result.op = "find_nonbonded_force"
    /\ Cardinality(NonbondedAt(system)) = 1
    /\ \E i \in NonbondedAt(system) :
           /\ 1 < i /\ i < Len(system)
           /\ result.outcome.kind = "return"
           /\ result.outcome.value.handle = i

\* C3: the generator of iterate_nonbonded_forces has yielded, at every point,
\* exactly the nonbonded forces among the forces it has passed, in list order,
\* and once exhausted exactly the nonbonded forces of the system, none or
\* several of them included.
C3_IterateYields ==
    /\ gen.state # "none"
         => gen.yielded = NonbondedOf(SubSeq(system, 1, gen.idx - 1))
    /\ gen.state = "exhausted" => gen.yielded = NonbondedOf(system)

\* An exhausted generator that has yielded two nonbonded forces out of a
\* system that also holds a force of another class.
C3_Witness ==
    /\ gen.state = "exhausted"
    /\ Len(gen.yielded) = 2
    /\ gen.yielded[1].handle < gen.yielded[2].handle
    /\ Len(system) > 2

\* C6 as stated: from_system returns what from_nonbonded_force returns for the
\* sole nonbonded force; with more than one it fails with MultipleForcesError;
\* with none it fails on the dereference of None; a failure returns no force.
C6_MultipleForcesError ==
    result.op = "from_system"
        => /\ Cardinality(NonbondedAt(system)) = 1
                => \E i \in NonbondedAt(system) :
                       /\ result.outcome.kind = "return"
                       /\ result.outcome =
                              from_nonbonded_force(result.cls, system[i], result.switch_width)
           /\ Cardinality(NonbondedAt(system)) > 1
                => /\ result.outcome.kind = "raise"
                   /\ result.outcome.exc = "MultipleForcesError"
                   /\ result.outcome.value = None
           /\ Cardinality(NonbondedAt(system)) = 0
                => /\ result.outcome.kind = "raise"
                   /\ result.outcome.exc = "AttributeError"
                   /\ result.outcome.value = None

\* C6 amended: from_system returns what from_nonbonded_force returns for the
\* sole nonbonded force; with more than one it fails with the ValueError of
\* find_nonbonded_force; with none it fails with the AttributeError of the
\* dereference of None; a failure returns no force.
C6_FromSystem ==
    result.op = "from_system"
        => /\ Cardinality(NonbondedAt(system)) = 1
                => \E i \in NonbondedAt(system) :
                       /\ result.outcome.kind = "return"
                       /\ result.outcome =
                              from_nonbonded_force(result.cls, system[i], result.switch_width)
           /\ Cardinality(NonbondedAt(system)) > 1
                => /\ result.outcome.kind = "raise"
                   /\ result.outcome.exc = "ValueError"
                   /\ result.outcome.value = None
           /\ Cardinality(NonbondedAt(system)) = 0
                => /\ result.outcome.kind = "raise"
                   /\ result.outcome.exc = "AttributeError"
                   /\ result.outcome.value = None

\* from_system, called with the switch width disabled, has returned a force
\* with the particles and an exclusion of the sole nonbonded force, which is
\* not the first force of the system.
C6_Witness ==
    /\ result.op = "from_system"
    /\ result.switch_width = None
    /\ result.outcome.kind = "return"
    /\ Len(result.outcome.value.particles) = 3
    /\ Len(result.outcome.value.exclusions) = 1
    /\ 1 \notin NonbondedAt(system)

\* C10: the calls only read: no step of find_nonbonded_force,
\* iterate_nonbonded_forces and its generator, from_nonbonded_force or
\* from_system changes the system's force list or any field of a force in it
\* (cutoff, dielectric, particle parameters, exceptions).
C10_ReadOnly == [][system' = system]_vars

\* from_nonbonded_force has returned a force copied from a source that still
\* holds a nonzero charge.
C10_Witness ==
    /\ result.op = "from_nonbonded_force"
    /\ result.outcome.kind = "return"
    /\ Len(result.outcome.value.particles) > 0
    /\ \E i \in 1..Len(system[result.source].particles) :
           system[result.source].particles[i].charge # 0

-----------------------------------------------------------------------------
(* Properties of the constructors, under SpecBuild.                        *)

\* C4: for both classes, the force from_nonbonded_force returns has as many
\* particles as the source, and particle i carries the single parameter charge
\* of the source's particle i; sigma and epsilon are not copied.
C4_ParticleCharges ==
    result.op = "from_nonbonded_force"
        => LET nb == system[result.source]
               f == result.outcome.value
           IN  /\ result.outcome.kind = "return"
               /\ f.perParticleParameters = <<"charge">>
               /\ Len(f.particles) = Len(nb.particles)
               /\ \A i \in 1..Len(nb.particles) : f.particles[i] = <<nb.particles[i].charge>>

\* A force copied from a source with two particles of different charge, sigma
\* and epsilon.
C4_Witness ==
    /\ result.op = "from_nonbonded_force"
    /\ result.outcome.kind = "return"
    /\ LET nb == system[result.source]
       IN  /\ Len(nb.particles) >= 2
           /\ nb.particles[1].charge # nb.particles[2].charge
           /\ nb.particles[1].sigma # nb.particles[2].sigma
           /\ Len(result.outcome.value.particles) >= 2

C7_Switching ==
    result.op = "__init__"
        => LET f == result.outcome.value
           IN  /\ result.switch_width # None
                    => /\ f.useSwitchingFunction = Bool(TRUE)
                       /\ f.switchingDistance =
                              RatSub(result.cutoff_distance, result.switch_width)
               /\ result.switch_width = None
                    => /\ f.useSwitchingFunction = Bool(FALSE)
                       /\ f.switchingDistance = Unset
               /\ f.nonbondedMethod = [cls |-> "CutoffPeriodic"]
               /\ f.cutoffDistance = result.cutoff_distance
               /\ f.useLongRangeCorrection = Bool(FALSE)

\* A switched force constructed with the switch width disabled.
C7_Witness ==
    /\ result.op = "__init__"
    /\ result.cls = "SwitchedReactionFieldForce"
    /\ result.switch_width = None
    /\ result.outcome.value.useSwitchingFunction = Bool(FALSE)

\* C8 as stated: for a positive cutoff and a dielectric greater than 0, the
\* k_rf the constructor computes is strictly positive.
C8_PositiveForPositiveDielectric ==
    (/\ result.op = "__init__"
     /\ RatPos(result.cutoff_distance)
     /\ RatPos(result.reaction_field_dielectric))
        => RatPos(result.k_rf)

\* C8 amended: for a positive cutoff and a dielectric greater than 1, the k_rf
\* the constructor computes is strictly positive.
C8_PositiveAboveOne ==
    (/\ result.op = "__init__"
     /\ RatPos(result.cutoff_distance)
     /\ RatLt(RatInt(1), result.reaction_field_dielectric))
        => RatPos(result.k_rf)

\* A force constructed with the default dielectric 78.3, its k_rf positive.
C8_Witness ==
    /\ result.op = "__init__"
    /\ result.reaction_field_dielectric = Rat(783, 10)
    /\ RatPos(result.k_rf)

\* C9: for both classes, the force from_nonbonded_force returns embeds the
\* same k_rf (and, for the switched class, the same c_rf) as a force
\* constructed directly with the source's cutoff and dielectric and any switch
\* width, whatever particles and exceptions the source holds.
C9_RoundTrip ==
    result.op = "from_nonbonded_force"
        => \A cutoff_distance \in Cutoffs, d \in Dielectrics, switch_width \in SwitchWidths :
               LET nb == system[result.source]
                   direct == New(result.cls, cutoff_distance, switch_width, d)
               IN  (cutoff_distance = nb.cutoffDistance /\ d = nb.reactionFieldDielectric)
                       => /\ result.outcome.kind = "return"
                          /\ result.outcome.value.energy.k_rf = direct.energy.k_rf
                          /\ result.outcome.value.energy.c_rf = direct.energy.c_rf

\* A switched force copied, with switch width 1 angstrom, from a source with
\* cutoff 12 angstroms, dielectric 80, particles and an exception.
C9_Witness ==
    /\ result.op = "from_nonbonded_force"
    /\ result.cls = "SwitchedReactionFieldForce"
    /\ result.switch_width = Rat(1, 10)
    /\ result.outcome.kind = "return"
    /\ result.outcome.value.energy.c_rf # Unset
    /\ LET nb == system[result.source]
       IN  /\ nb.cutoffDistance = Rat(6, 5)
           /\ nb.reactionFieldDielectric = Rat(80, 1)
           /\ Len(nb.particles) > 0
           /\ Len(nb.exceptions) > 0

====
